---- MODULE Spec2Model ----
(***************************************************************************)
(* Model of the two presentational components of the template and of the  *)
(* image configuration:                                                    *)
(*   - VideoCard (src/components/VideoCard.tsx): one useState cell, one    *)
(*     useEffect keyed on [id], and the markup the component returns;      *)
(*   - SafeButton (src/components/ui/safe-button.tsx): prop destructuring, *)
(*     class merge and the spread onto the Button primitive;               *)
(*   - nextConfig: reactStrictMode and the image host allow-list.          *)
(* Strings are sequences of one-character strings, so that template        *)
(* literals are real concatenations and URLs can be parsed.                *)
(***************************************************************************)
EXTENDS Naturals, Sequences, FiniteSets

(* ------------------------------ bounds --------------------------------- *)

\* number of parent re-renders with changed props followed per mount
MaxPropChanges == 3

(* --------------------------- string literals --------------------------- *)

\* "https://picsum.photos/200/300?random="
ThumbnailPrefix == <<"h","t","t","p","s",":","/","/","p","i","c","s","u","m",".","p","h","o","t","o","s","/","2","0","0","/","3","0","0","?","r","a","n","d","o","m","=">>

\* "https://i.pravatar.cc/300?u="
AvatarPrefix == <<"h","t","t","p","s",":","/","/","i",".","p","r","a","v","a","t","a","r",".","c","c","/","3","0","0","?","u","=">>

\* " views • " (the bullet is the single code point U+2022)
ViewsSeparator == <<" ","v","i","e","w","s"," ","U+2022"," ">>

\* "i.pravatar.cc"
PravatarHost == <<"i",".","p","r","a","v","a","t","a","r",".","c","c">>

\* "picsum.photos"
PicsumHost == <<"p","i","c","s","u","m",".","p","h","o","t","o","s">>

\* the empty string
EmptyString == <<>>

(* ------------------------------ inputs --------------------------------- *)

\* id props: "1", "2" and an id with URL metacharacters, "@evil.io/x"
Ids == { <<"1">>, <<"2">>, <<"@","e","v","i","l",".","i","o","/","x">> }

Titles == { <<"T","1">>, <<"T","2">> }

ChannelNames == { <<"A","c","m","e">>, EmptyString }

ViewCounts == { <<"1","0","K">>, <<"2","M">> }

TimesPosted == { <<"2","d">> }

Durations == { <<"3",":","0","7">>, <<"1","0",":","0","0">> }

ChannelIds == { <<"c","1">>, <<"u","/","9">> }

VideoCardProps ==
  [ id : Ids, title : Titles, channelName : ChannelNames, views : ViewCounts,
    timePosted : TimesPosted, duration : Durations, channelId : ChannelIds ]

(* ----------------------------- nextConfig ------------------------------ *)

reactStrictMode == TRUE

\* domains: ['i.pravatar.cc', 'picsum.photos']
ImageDomains ==
  { <<"i",".","p","r","a","v","a","t","a","r",".","c","c">>,
    <<"p","i","c","s","u","m",".","p","h","o","t","o","s">> }

(* ------------------------------ VideoCard ------------------------------ *)

VARIABLES
  phase,          \* "init" | "served" | "mounted"
  devBuild,       \* development build (Strict Mode double invocation active)
  props,          \* props of the latest render
  thumbnail,      \* the useState cell
  prevDeps,       \* <<id>> of the latest committed render, <<>> before mount
  effectPending,  \* the [id] effect is scheduled and has not run yet
  strictReplay,   \* Strict Mode's second invocation of the mount effect is due
  dirty,          \* setThumbnail changed the state; a re-render is scheduled
  dom,            \* markup of the latest client render
  serverHtml,     \* server markup in the document, <<>> if none or once patched
  syncSrc,        \* thumbnail src of the reference that interpolates at render
  renders,        \* client renders since mount
  effectRuns,     \* invocations of the effect since mount
  identityChanges,\* mount + renders whose id differs from the previous render
  seenIds,        \* ids the component has been given since mount
  propChanges,    \* parent re-renders with changed props since mount
  sbProps,        \* props the caller gave to SafeButton in its latest render
  sbOut           \* props SafeButton gave to Button in its latest render

vars == << phase, devBuild, props, thumbnail, prevDeps, effectPending,
           strictReplay, dirty, dom, serverHtml, syncSrc, renders, effectRuns,
           identityChanges, seenIds, propChanges, sbProps, sbOut >>

buttonVars == << sbProps, sbOut >>

cardVars == << phase, devBuild, props, thumbnail, prevDeps, effectPending,
               strictReplay, dirty, dom, serverHtml, syncSrc, renders,
               effectRuns, identityChanges, seenIds, propChanges >>

\* variant: a placeholder service that the configuration does not list,
\* `https://placehold.co/200x300?text=${id}`
ThumbnailUrlUnlistedHost(id) ==
  <<"h","t","t","p","s",":","/","/","p","l","a","c","e","h","o","l","d",".","c","o","/","2","0","0","x","3","0","0","?","t","e","x","t","=">> \o id

\* variant: the template without the interpolated id
ThumbnailUrlNoId(id) == ThumbnailPrefix

\* `https://picsum.photos/200/300?random=${id}`
ThumbnailUrl(id) == ThumbnailPrefix \o id

\* `https://i.pravatar.cc/300?u=${channelId}`
AvatarUrl(channelId) == AvatarPrefix \o channelId

\* useState("")
InitialThumbnail == EmptyString

\* channelName[0]: the first character, nothing for the empty string
FirstChar(s) == IF Len(s) = 0 THEN EmptyString ELSE <<s[1]>>

\* variant: the avatar src interpolates id instead of channelId
RenderOutAvatarFromId(p, thumb) ==
  [ thumbSrc       |-> thumb,
    thumbAlt       |-> p.title,
    durationBadge  |-> p.duration,
    avatarSrc      |-> AvatarUrl(p.id),
    avatarFallback |-> FirstChar(p.channelName),
    heading        |-> p.title,
    channelLine    |-> p.channelName,
    metaLine       |-> p.views \o ViewsSeparator \o p.timePosted ]

\* variant: the alt text is the channel name instead of the title
RenderOutAltFromChannel(p, thumb) ==
  [ thumbSrc       |-> thumb,
    thumbAlt       |-> p.channelName,
    durationBadge  |-> p.duration,
    avatarSrc      |-> AvatarUrl(p.channelId),
    avatarFallback |-> FirstChar(p.channelName),
    heading        |-> p.title,
    channelLine    |-> p.channelName,
    metaLine       |-> p.views \o ViewsSeparator \o p.timePosted ]

\* the markup returned by VideoCard for props p and state thumb
RenderOut(p, thumb) ==
  [ thumbSrc       |-> thumb,
    thumbAlt       |-> p.title,
    durationBadge  |-> p.duration,
    avatarSrc      |-> AvatarUrl(p.channelId),
    avatarFallback |-> FirstChar(p.channelName),
    heading        |-> p.title,
    channelLine    |-> p.channelName,
    metaLine       |-> p.views \o ViewsSeparator \o p.timePosted ]

NoProps == [ id |-> EmptyString, title |-> EmptyString, channelName |-> EmptyString,
             views |-> EmptyString, timePosted |-> EmptyString,
             duration |-> EmptyString, channelId |-> EmptyString ]

NoMarkup == <<>>

StrictDoubleInvoke == reactStrictMode /\ devBuild

(* ------------------------------ SafeButton ----------------------------- *)

\* "font-semibold transition-all"
StaticClasses == <<"f","o","n","t","-","s","e","m","i","b","o","l","d"," ","t","r","a","n","s","i","t","i","o","n","-","a","l","l">>

\* a props object is a function from the keys present to their values;
\* the value of a key that may be undefined is {} (undefined) or {v}
EmptyObject == <<>>

Get(o, k) == IF k \in DOMAIN o THEN {o[k]} ELSE {}

Only(opt) == CHOOSE v \in opt : TRUE

\* Object.assign semantics of JSX attributes followed by a spread
Assign(a, b) ==
  [ k \in (DOMAIN a) \cup (DOMAIN b) |-> IF k \in DOMAIN b THEN b[k] ELSE a[k] ]

\* cn(static, className): the class list merge; falsy inputs are skipped
cn(static, className) ==
  IF className = {} \/ className = {EmptyString}
  THEN static
  ELSE static \o <<" ">> \o Only(className)

\* caller-supplied className values: "", "px-2", "font-bold"
ClassNames == { EmptyString, <<"p","x","-","2">>, <<"f","o","n","t","-","b","o","l","d">> }

\* variant values: the three declared ones and one outside the declared union
Variants == { <<"d","e","f","a","u","l","t">>, <<"d","e","s","t","r","u","c","t","i","v","e">>, <<"s","e","c","o","n","d","a","r","y">>, <<"g","h","o","s","t">> }

Sizes == { <<"s","m">>, <<"i","c","o","n">> }

Opt(S) == { {} } \cup { {v} : v \in S }

MakeProps(c, v, s, d) ==
  LET present == { k \in {"className", "variant", "size", "disabled"} :
                     CASE k = "className" -> c # {}
                       [] k = "variant"   -> v # {}
                       [] k = "size"      -> s # {}
                       [] OTHER           -> d # {} }
  IN  [ k \in present |->
          CASE k = "className" -> Only(c)
            [] k = "variant"   -> Only(v)
            [] k = "size"      -> Only(s)
            [] OTHER           -> Only(d) ]

SafeButtonProps ==
  { MakeProps(c, v, s, d) :
      c \in Opt(ClassNames), v \in Opt(Variants), s \in Opt(Sizes),
      d \in Opt(BOOLEAN) }

\* variant: the destructuring gives variant a default value of "default"
SafeButtonDefaultVariant(p) ==
  LET className == Get(p, "className")
      variant   == IF "variant" \in DOMAIN p THEN {p["variant"]}
                   ELSE {<<"d","e","f","a","u","l","t">>}
      rest      == [ k \in (DOMAIN p) \ {"className", "variant"} |-> p[k] ]
  IN  Assign([ className |-> cn(StaticClasses, className),
               variant   |-> variant ], rest)

\* variant: className is read from the props but left in the spread rest
SafeButtonClassNameInRest(p) ==
  LET className == Get(p, "className")
      variant   == Get(p, "variant")
      rest      == [ k \in (DOMAIN p) \ {"variant"} |-> p[k] ]
  IN  Assign([ className |-> cn(StaticClasses, className),
               variant   |-> variant ], rest)

\* ({ className, variant, ...props }) =>
\*   <Button className={cn("font-semibold transition-all", className)}
\*           variant={variant} {...props} />
SafeButton(p) ==
  LET className == Get(p, "className")
      variant   == Get(p, "variant")
      rest      == [ k \in (DOMAIN p) \ {"className", "variant"} |-> p[k] ]
  IN  Assign([ className |-> cn(StaticClasses, className),
               variant   |-> variant ], rest)

RenderSafeButton(p) ==
  /\ sbProps' = p
  /\ sbOut' = SafeButton(p)
  /\ UNCHANGED cardVars

(* ------------------------------ lifecycle ------------------------------ *)

Unmounted ==
  /\ phase = "init"
  /\ props = NoProps
  /\ thumbnail = InitialThumbnail
  /\ prevDeps = <<>>
  /\ effectPending = FALSE
  /\ strictReplay = FALSE
  /\ dirty = FALSE
  /\ dom = NoMarkup
  /\ serverHtml = NoMarkup
  /\ syncSrc = EmptyString
  /\ renders = 0
  /\ effectRuns = 0
  /\ identityChanges = 0
  /\ seenIds = {}
  /\ propChanges = 0

ButtonInit ==
  /\ sbProps = EmptyObject
  /\ sbOut = SafeButton(EmptyObject)

Init ==
  /\ devBuild \in BOOLEAN
  /\ Unmounted
  /\ ButtonInit

\* renderToString on the server: the body runs once, effects never run
ServerRender(p) ==
  /\ phase = "init"
  /\ phase' = "served"
  /\ props' = p
  /\ serverHtml' = RenderOut(p, InitialThumbnail)
  /\ UNCHANGED buttonVars
  /\ UNCHANGED << devBuild, thumbnail, prevDeps, effectPending, strictReplay,
                  dirty, dom, syncSrc, renders, effectRuns, identityChanges,
                  seenIds, propChanges >>

\* variant: the thumbnail URL is computed in the first client render
FirstRenderEager(p) ==
  /\ props' = p
  /\ phase' = "mounted"
  /\ thumbnail' = ThumbnailUrl(p.id)
  /\ dom' = RenderOut(p, ThumbnailUrl(p.id))
  /\ syncSrc' = ThumbnailUrl(p.id)
  /\ prevDeps' = <<p.id>>
  /\ effectPending' = TRUE
  /\ strictReplay' = FALSE
  /\ dirty' = FALSE
  /\ renders' = 1
  /\ effectRuns' = 0
  /\ identityChanges' = 1
  /\ seenIds' = {p.id}
  /\ propChanges' = 0

\* first client render of p: state cell created, effect scheduled
FirstRender(p) ==
  /\ props' = p
  /\ phase' = "mounted"
  /\ thumbnail' = InitialThumbnail
  /\ dom' = RenderOut(p, InitialThumbnail)
  /\ syncSrc' = ThumbnailUrl(p.id)
  /\ prevDeps' = <<p.id>>
  /\ effectPending' = TRUE
  /\ strictReplay' = FALSE
  /\ dirty' = FALSE
  /\ renders' = 1
  /\ effectRuns' = 0
  /\ identityChanges' = 1
  /\ seenIds' = {p.id}
  /\ propChanges' = 0

\* hydration of the server markup with the props the server rendered
Hydrate ==
  /\ phase = "served"
  /\ FirstRender(props)
  /\ UNCHANGED buttonVars
  /\ UNCHANGED << devBuild, serverHtml >>

\* mount on the client without server markup (client-side navigation)
ClientMount(p) ==
  /\ phase = "init"
  /\ FirstRender(p)
  /\ UNCHANGED buttonVars
  /\ UNCHANGED << devBuild, serverHtml >>

\* the effect body: setThumbnail(`https://picsum.photos/200/300?random=${id}`)
RunEffect ==
  /\ phase = "mounted"
  /\ effectPending
  /\ thumbnail' = ThumbnailUrl(props.id)
  /\ dirty' = (dirty \/ thumbnail' # thumbnail)
  /\ effectPending' = FALSE
  /\ strictReplay' = (StrictDoubleInvoke /\ effectRuns = 0)
  /\ effectRuns' = effectRuns + 1
  /\ UNCHANGED buttonVars
  /\ UNCHANGED << phase, devBuild, props, prevDeps, dom, serverHtml, syncSrc,
                  renders, identityChanges, seenIds, propChanges >>

\* Strict Mode in development re-runs the mount effect once
StrictReplayEffect ==
  /\ phase = "mounted"
  /\ strictReplay
  /\ thumbnail' = ThumbnailUrl(props.id)
  /\ dirty' = (dirty \/ thumbnail' # thumbnail)
  /\ strictReplay' = FALSE
  /\ effectRuns' = effectRuns + 1
  /\ UNCHANGED buttonVars
  /\ UNCHANGED << phase, devBuild, props, prevDeps, effectPending, dom,
                  serverHtml, syncSrc, renders, identityChanges, seenIds,
                  propChanges >>

\* variant: the effect has no dependency array and is scheduled by every render
RerenderNoDeps ==
  /\ phase = "mounted"
  /\ dirty
  /\ ~effectPending
  /\ ~strictReplay
  /\ dom' = RenderOut(props, thumbnail)
  /\ syncSrc' = ThumbnailUrl(props.id)
  /\ dirty' = FALSE
  /\ effectPending' = TRUE
  /\ prevDeps' = <<props.id>>
  /\ renders' = renders + 1
  /\ serverHtml' = NoMarkup
  /\ UNCHANGED buttonVars
  /\ UNCHANGED << phase, devBuild, props, thumbnail, strictReplay,
                  effectRuns, identityChanges, seenIds, propChanges >>

\* re-render caused by the state update; deps [id] are unchanged
Rerender ==
  /\ phase = "mounted"
  /\ dirty
  /\ ~effectPending
  /\ ~strictReplay
  /\ dom' = RenderOut(props, thumbnail)
  /\ syncSrc' = ThumbnailUrl(props.id)
  /\ dirty' = FALSE
  /\ effectPending' = (<<props.id>> # prevDeps)
  /\ prevDeps' = <<props.id>>
  /\ renders' = renders + 1
  /\ serverHtml' = NoMarkup
  /\ UNCHANGED buttonVars
  /\ UNCHANGED << phase, devBuild, props, thumbnail, strictReplay,
                  effectRuns, identityChanges, seenIds, propChanges >>

\* variant: the effect has an empty dependency array and runs on mount only
ChangePropsEmptyDeps(p) ==
  /\ phase = "mounted"
  /\ ~effectPending
  /\ ~strictReplay
  /\ p # props
  /\ propChanges < MaxPropChanges
  /\ props' = p
  /\ dom' = RenderOut(p, thumbnail)
  /\ syncSrc' = ThumbnailUrl(p.id)
  /\ dirty' = FALSE
  /\ effectPending' = FALSE
  /\ prevDeps' = <<p.id>>
  /\ renders' = renders + 1
  /\ identityChanges' = IF p.id # props.id THEN identityChanges + 1
                        ELSE identityChanges
  /\ seenIds' = seenIds \cup {p.id}
  /\ propChanges' = propChanges + 1
  /\ serverHtml' = NoMarkup
  /\ UNCHANGED buttonVars
  /\ UNCHANGED << phase, devBuild, thumbnail, strictReplay, effectRuns >>

\* variant: a render with a new id clears the thumbnail state
ChangePropsKeyedReset(p) ==
  /\ phase = "mounted"
  /\ ~effectPending
  /\ ~strictReplay
  /\ p # props
  /\ propChanges < MaxPropChanges
  /\ props' = p
  /\ thumbnail' = IF p.id # props.id THEN EmptyString ELSE thumbnail
  /\ dom' = RenderOut(p, thumbnail')
  /\ syncSrc' = ThumbnailUrl(p.id)
  /\ dirty' = FALSE
  /\ effectPending' = (<<p.id>> # prevDeps)
  /\ prevDeps' = <<p.id>>
  /\ renders' = renders + 1
  /\ identityChanges' = IF p.id # props.id THEN identityChanges + 1
                        ELSE identityChanges
  /\ seenIds' = seenIds \cup {p.id}
  /\ propChanges' = propChanges + 1
  /\ serverHtml' = NoMarkup
  /\ UNCHANGED buttonVars
  /\ UNCHANGED << phase, devBuild, strictReplay, effectRuns >>

\* the parent re-renders VideoCard with different props
ChangeProps(p) ==
  /\ phase = "mounted"
  /\ ~effectPending
  /\ ~strictReplay
  /\ p # props
  /\ propChanges < MaxPropChanges
  /\ props' = p
  /\ dom' = RenderOut(p, thumbnail)
  /\ syncSrc' = ThumbnailUrl(p.id)
  /\ dirty' = FALSE
  /\ effectPending' = (<<p.id>> # prevDeps)
  /\ prevDeps' = <<p.id>>
  /\ renders' = renders + 1
  /\ identityChanges' = IF p.id # props.id THEN identityChanges + 1
                        ELSE identityChanges
  /\ seenIds' = seenIds \cup {p.id}
  /\ propChanges' = propChanges + 1
  /\ serverHtml' = NoMarkup
  /\ UNCHANGED buttonVars
  /\ UNCHANGED << phase, devBuild, thumbnail, strictReplay, effectRuns >>

\* the component is removed; its state cell is discarded
Unmount ==
  /\ phase = "mounted"
  /\ ~effectPending
  /\ ~strictReplay
  /\ phase' = "init"
  /\ props' = NoProps
  /\ thumbnail' = InitialThumbnail
  /\ prevDeps' = <<>>
  /\ dirty' = FALSE
  /\ dom' = NoMarkup
  /\ serverHtml' = NoMarkup
  /\ syncSrc' = EmptyString
  /\ renders' = 0
  /\ effectRuns' = 0
  /\ identityChanges' = 0
  /\ seenIds' = {}
  /\ propChanges' = 0
  /\ UNCHANGED buttonVars
  /\ UNCHANGED << devBuild, effectPending, strictReplay >>

Next ==
  \/ \E p \in VideoCardProps : ServerRender(p)
  \/ Hydrate
  \/ \E p \in VideoCardProps : ClientMount(p)
  \/ RunEffect
  \/ StrictReplayEffect
  \/ Rerender
  \/ \E p \in VideoCardProps : ChangeProps(p)
  \/ Unmount

Spec == Init /\ [][Next]_vars

InitButton ==
  /\ devBuild = FALSE
  /\ Unmounted
  /\ ButtonInit

NextButton == \E p \in SafeButtonProps : RenderSafeButton(p)

SpecButton == InitButton /\ [][NextButton]_vars

(* ------------------------- helpers of the claims ----------------------- *)

\* index of the first character of s at or after from that is in C, else Len(s)+1
FirstIndex(s, from, C) ==
  IF \E i \in from..Len(s) : s[i] \in C
  THEN CHOOSE i \in from..Len(s) :
         /\ s[i] \in C
         /\ \A j \in from..(i - 1) : s[j] \notin C
  ELSE Len(s) + 1

\* host of an absolute URL: the authority runs from "://" to the first of
\* "/", "?", "#"; the host follows the last "@" and stops at a ":" port
HostOf(url) ==
  LET colon     == FirstIndex(url, 1, {":"})
      start     == colon + 3
      stop      == FirstIndex(url, start, {"/", "?", "#"})
      authority == SubSeq(url, start, stop - 1)
      ats       == { i \in 1..Len(authority) : authority[i] = "@" }
      hostStart == IF ats = {} THEN 1
                   ELSE (CHOOSE i \in ats : \A j \in ats : j <= i) + 1
      hostStop  == FirstIndex(authority, hostStart, {":"})
  IN  SubSeq(authority, hostStart, hostStop - 1)

Contains(s, sub) ==
  \E i \in 1..(Len(s) - Len(sub) + 1) : SubSeq(s, i, i + Len(sub) - 1) = sub

StartsWith(s, pre) == Len(pre) <= Len(s) /\ SubSeq(s, 1, Len(pre)) = pre

Mounted == phase = "mounted"

\* no effect, Strict Mode replay or state-update re-render is outstanding
Settled == Mounted /\ ~effectPending /\ ~strictReplay /\ ~dirty

(* -------------------------------- claims ------------------------------- *)

\* C1: once VideoCard is mounted with an id and the effect for that id has
\* run, the thumbnail state is "https://picsum.photos/200/300?random=" followed
\* by the id, and so is the img src once the resulting re-render is committed.
C1_ThumbnailAfterEffect ==
  (Mounted /\ effectRuns > 0 /\ ~effectPending) =>
     /\ thumbnail = ThumbnailPrefix \o props.id
     /\ (~dirty => dom.thumbSrc = ThumbnailPrefix \o props.id)

C1_Witness ==
  /\ Settled
  /\ identityChanges >= 2
  /\ dom.thumbSrc = ThumbnailPrefix \o props.id

\* C2: in every render, the server render and the initial client render
\* included, the avatar src is "https://i.pravatar.cc/300?u=" followed by the
\* channelId prop, whatever the thumbnail state and the id are.
C2_AvatarSrc ==
  /\ Mounted => dom.avatarSrc = AvatarPrefix \o props.channelId
  /\ phase = "served" => serverHtml.avatarSrc = AvatarPrefix \o props.channelId

C2_Witness ==
  /\ Mounted
  /\ renders = 1
  /\ effectRuns = 0
  /\ dom.avatarSrc = AvatarPrefix \o <<"u","/","9">>

\* C3: every render outputs title (heading and alt text), duration (badge),
\* channelName (channel line) and views (start of the metadata line) verbatim,
\* whatever the thumbnail state is.
C3_VerbatimStrings ==
  Mounted =>
    /\ dom.heading = props.title
    /\ dom.thumbAlt = props.title
    /\ dom.durationBadge = props.duration
    /\ dom.channelLine = props.channelName
    /\ StartsWith(dom.metaLine, props.views)
    /\ Contains(dom.metaLine, props.timePosted)

C3_Witness ==
  /\ Settled
  /\ propChanges >= 1
  /\ dom.thumbSrc # EmptyString
  /\ dom.heading = <<"T","2">>
  /\ dom.metaLine = <<"2","M">> \o ViewsSeparator \o <<"2","d">>

\* C4: SafeButton hands the variant to Button unchanged (an absent variant
\* stays undefined) and the className it hands over always contains
\* "font-semibold transition-all".
C4_VariantAndStaticClasses ==
  /\ sbOut.variant = Get(sbProps, "variant")
  /\ Contains(sbOut.className, StaticClasses)

C4_Witness ==
  /\ "variant" \notin DOMAIN sbProps
  /\ "className" \in DOMAIN sbProps
  /\ sbProps.className = <<"f","o","n","t","-","b","o","l","d">>
  /\ sbOut.variant = {}

\* C5: the markup of the first client render equals the server markup for the
\* same props; the first render has an empty thumbnail src, and a non-empty
\* thumbnail src appears only after the effect has run.
C5_ServerClientMarkup ==
  Mounted =>
    /\ (serverHtml # NoMarkup /\ renders = 1) => dom = serverHtml
    /\ renders = 1 => dom.thumbSrc = EmptyString
    /\ dom.thumbSrc # EmptyString => effectRuns > 0

C5_Witness ==
  /\ Mounted
  /\ serverHtml # NoMarkup
  /\ renders = 1
  /\ dom = serverHtml

\* C6 (as stated): in every rendered state the component shows the thumbnail
\* src that a reference computing it from the current id at render time shows.
C6_SameAsSynchronous ==
  Mounted => dom.thumbSrc = syncSrc

\* C6 (amended): the component shows the reference's thumbnail src in every
\* rendered state in which the effect for the current id has run and the
\* re-render it caused has been committed.
C6_SameAsSynchronousOnceSettled ==
  Settled => dom.thumbSrc = syncSrc

C6_Witness ==
  /\ Settled
  /\ identityChanges >= 2
  /\ dom.thumbSrc = syncSrc
  /\ syncSrc = ThumbnailPrefix \o props.id

\* C7 (as stated): the effect is invoked exactly once after mount and once
\* after each render whose id differs from the previous one, and never else.
C7_OncePerIdentityChange ==
  (Mounted /\ ~effectPending /\ ~strictReplay) => effectRuns = identityChanges

\* C7 (amended): the effect is invoked once after each render whose id differs
\* from the previous one and never after a render that keeps id; after mount
\* it is invoked once in a production build and twice in a development build,
\* where reactStrictMode re-runs the mount effect.
C7_OncePerIdentityChangePlusStrictReplay ==
  (Mounted /\ ~effectPending /\ ~strictReplay) =>
     effectRuns = identityChanges + (IF reactStrictMode /\ devBuild THEN 1 ELSE 0)

C7_Witness ==
  /\ Settled
  /\ devBuild
  /\ identityChanges = 2
  /\ effectRuns = 3
  /\ renders >= 5

\* C8: every prop other than className and variant reaches Button unchanged,
\* and the className and variant Button receives are the merged class list
\* and the caller's variant, whatever else the caller passes.
C8_RestForwarded ==
  /\ DOMAIN sbOut = (DOMAIN sbProps) \cup {"className", "variant"}
  /\ \A k \in (DOMAIN sbProps) \ {"className", "variant"} : sbOut[k] = sbProps[k]
  /\ sbOut.className = cn(StaticClasses, Get(sbProps, "className"))
  /\ sbOut.variant = Get(sbProps, "variant")

C8_Witness ==
  /\ DOMAIN sbProps = {"className", "variant", "size", "disabled"}
  /\ sbOut.size = sbProps.size
  /\ sbOut.disabled = TRUE
  /\ sbOut.className # sbProps.className

\* C9: the image allow-list is exactly {i.pravatar.cc, picsum.photos}, and the
\* host of every remote image URL VideoCard emits is a member of it.
C9_ImageHostsAllowed ==
  /\ ImageDomains = { PravatarHost, PicsumHost }
  /\ Cardinality(ImageDomains) = 2
  /\ Mounted =>
       /\ HostOf(dom.avatarSrc) \in ImageDomains
       /\ dom.thumbSrc # EmptyString => HostOf(dom.thumbSrc) \in ImageDomains

C9_Witness ==
  /\ Settled
  /\ props.id = <<"@","e","v","i","l",".","i","o","/","x">>
  /\ HostOf(dom.thumbSrc) = PicsumHost
  /\ HostOf(dom.avatarSrc) = PravatarHost

\* C10: while mounted, the thumbnail state is "" exactly as long as the effect
\* has not run, and afterwards it is the picsum URL of an id the component has
\* been given; it never returns to "".
C10_ThumbnailValues ==
  Mounted =>
    \/ effectRuns = 0 /\ thumbnail = EmptyString
    \/ /\ effectRuns > 0
       /\ thumbnail # EmptyString
       /\ \E i \in seenIds : thumbnail = ThumbnailPrefix \o i

C10_Witness ==
  /\ Mounted
  /\ effectPending
  /\ identityChanges >= 2
  /\ thumbnail # EmptyString
  /\ thumbnail # ThumbnailPrefix \o props.id

====
